---- MODULE Spec2Model ----
(***************************************************************************)
(* A model of the stylestats analysis engine (Analyzer in lib/analyzer.js, *)
(* carried in src/bin/cli.js from line 131 on).  Strings are sequences of  *)
(* one-character strings, so that the regular expressions and the string   *)
(* conversions of the source are computed, character by character.         *)
(***************************************************************************)
EXTENDS Integers, Sequences, FiniteSets, TLC

VARIABLES
  rules,         \* this.rules: sequence of [selectors, declarations]
  selectors,     \* this.selectors: sequence of selector strings
  declarations,  \* this.declarations: sequence of [property, value, source]
  cssSize,       \* this.cssSize
  gzip,          \* what gzipSize.sync(this.cssString) does: a size, or -1 when it throws
  options,       \* this.options
  sourceMap,     \* this.sourceMap.values: group -> item -> sequence of sources
  analysis,      \* what the last call of analyze returned (or that it threw)
  first,         \* what the first call of analyze returned
  ruleAnalysis,         \* what analyzeRules returned to the last call
  selectorAnalysis,     \* what analyzeSelectors returned to the last call
  declarationAnalysis,  \* what analyzeDeclarations returned to the last call
  runs           \* how many times analyze has been called

vars == <<rules, selectors, declarations, cssSize, gzip, options, sourceMap,
          analysis, first, ruleAnalysis, selectorAnalysis, declarationAnalysis, runs>>

-----------------------------------------------------------------------------
(* Characters and strings *)

LowerLetters == <<"a","b","c","d","e","f","g","h","i","j","k","l","m",
                  "n","o","p","q","r","s","t","u","v","w","x","y","z">>
UpperLetters == <<"A","B","C","D","E","F","G","H","I","J","K","L","M",
                  "N","O","P","Q","R","S","T","U","V","W","X","Y","Z">>
Digits == <<"0","1","2","3","4","5","6","7","8","9">>
HexDigits == <<"0","1","2","3","4","5","6","7","8","9","a","b","c","d","e","f">>
\* the other characters, each with its code unit
Punctuation == <<
  <<" ", 32>>, <<"!", 33>>, <<"#", 35>>, <<"%", 37>>, <<"(", 40>>, <<")", 41>>,
  <<"*", 42>>, <<"+", 43>>, <<",", 44>>, <<"-", 45>>, <<".", 46>>, <<"/", 47>>,
  <<":", 58>>, <<";", 59>>, <<"=", 61>>, <<">", 62>>, <<"[", 91>>, <<"]", 93>>,
  <<"_", 95>>, <<"|", 124>>, <<"~", 126>> >>

PosIn(seq, c) ==
  IF \E i \in DOMAIN seq : seq[i] = c
  THEN CHOOSE i \in DOMAIN seq : seq[i] = c
  ELSE 0

Range(seq) == {seq[i] : i \in DOMAIN seq}
LowerSet == Range(LowerLetters)
UpperSet == Range(UpperLetters)
DigitSet == Range(Digits)

IsLower(c) == c \in LowerSet
IsUpper(c) == c \in UpperSet
IsDigit(c) == c \in DigitSet                 \* \d
IsWord(c)  == IsLower(c) \/ IsUpper(c) \/ IsDigit(c) \/ c = "_"   \* \w
IsSpace(c) == c = " "                         \* \s, over the characters used

\* String.prototype.charCodeAt, which < and > on strings compare
CharCode(c) ==
  IF IsLower(c) THEN 96 + PosIn(LowerLetters, c)
  ELSE IF IsUpper(c) THEN 64 + PosIn(UpperLetters, c)
  ELSE IF IsDigit(c) THEN 47 + PosIn(Digits, c)
  ELSE LET i == CHOOSE j \in DOMAIN Punctuation : Punctuation[j][1] = c
       IN Punctuation[i][2]

\* a < b on two strings
RECURSIVE StrLess(_, _)
StrLess(a, b) ==
  IF b = <<>> THEN FALSE
  ELSE IF a = <<>> THEN TRUE
  ELSE IF Head(a) = Head(b) THEN StrLess(Tail(a), Tail(b))
  ELSE CharCode(Head(a)) < CharCode(Head(b))

UpperChar(c) == IF IsLower(c) THEN UpperLetters[PosIn(LowerLetters, c)] ELSE c
LowerChar(c) == IF IsUpper(c) THEN LowerLetters[PosIn(UpperLetters, c)] ELSE c

\* String.prototype.toUpperCase
toUpperCase(s) == [i \in DOMAIN s |-> UpperChar(s[i])]

\* whether pat occurs in s at (1-based) position i
MatchesAt(s, pat, i) ==
  /\ i >= 1
  /\ i + Len(pat) - 1 <= Len(s)
  /\ \A k \in 1..Len(pat) : s[i + k - 1] = pat[k]

\* the same, letters compared without case (a RegExp's i flag)
MatchesAtI(s, pat, i) ==
  /\ i >= 1
  /\ i + Len(pat) - 1 <= Len(s)
  /\ \A k \in 1..Len(pat) : LowerChar(s[i + k - 1]) = LowerChar(pat[k])

\* the least number of a set of positions, 0 when it is empty
Least(hits) == IF hits = {} THEN 0 ELSE CHOOSE i \in hits : \A j \in hits : i <= j

\* the least position >= from at which pat occurs in s, 0 when there is none
Find(s, pat, from) == Least({i \in from..(Len(s) + 1) : MatchesAt(s, pat, i)})

\* String.prototype.indexOf(pat) > -1
Contains(s, pat) == Find(s, pat, 1) > 0

\* s.replace(pat, '') for a pattern that is a literal without the g flag
RemoveAt(s, i, n) ==
  IF i = 0 THEN s ELSE SubSeq(s, 1, i - 1) \o SubSeq(s, i + n, Len(s))

RemoveFirst(s, pat) == RemoveAt(s, Find(s, pat, 1), Len(pat))

\* s.replace(pat, '') for a literal pattern with the g flag
RECURSIVE RemoveAll(_, _)
RemoveAllFrom(s, pat, i) ==
  IF i = 0 \/ pat = <<>> THEN s
  ELSE SubSeq(s, 1, i - 1) \o RemoveAll(SubSeq(s, i + Len(pat), Len(s)), pat)

RemoveAll(s, pat) == RemoveAllFrom(s, pat, Find(s, pat, 1))

\* String.prototype.trim
RECURSIVE trim(_)
trim(s) ==
  IF s = <<>> THEN s
  ELSE IF IsSpace(Head(s)) THEN trim(Tail(s))
  ELSE IF IsSpace(s[Len(s)]) THEN trim(SubSeq(s, 1, Len(s) - 1))
  ELSE s

Important == <<"!","i","m","p","o","r","t","a","n","t">>

-----------------------------------------------------------------------------
(* analyzeSelectors: the chain length of a selector *)

\* the character class [\>|\+|\~]
IsCombinatorClass(c) == c \in {">", "|", "+", "~"}

\* selector.replace(/\s?([\>|\+|\~])\s?/g, '$1')
\* where the combinator of a match of /\s?([\>|\+|\~])\s?/ starting at i is, or 0
CombinatorAt(s, i) ==
  IF IsSpace(s[i]) /\ i < Len(s) /\ IsCombinatorClass(s[i + 1]) THEN i + 1
  ELSE IF IsCombinatorClass(s[i]) THEN i ELSE 0

RECURSIVE StripAroundCombinators(_, _)
StripMatch(s, i, at) ==
  IF at = 0 THEN <<s[i]>> \o StripAroundCombinators(s, i + 1)
  ELSE <<s[at]>> \o StripAroundCombinators(
                      s, IF at < Len(s) /\ IsSpace(s[at + 1]) THEN at + 2 ELSE at + 1)

StripAroundCombinators(s, i) ==
  IF i > Len(s) THEN <<>> ELSE StripMatch(s, i, CombinatorAt(s, i))

\* trimmedSelector.replace(/\s+/g, ' ')
RECURSIVE CollapseSpaces(_)
CollapseSpaces(s) ==
  IF s = <<>> THEN s
  ELSE IF IsSpace(Head(s))
       THEN IF Len(s) > 1 /\ IsSpace(s[2]) THEN CollapseSpaces(Tail(s))
            ELSE <<" ">> \o CollapseSpaces(Tail(s))
       ELSE <<Head(s)>> \o CollapseSpaces(Tail(s))

\* trimmedSelector.split(/\s|\>|\+|\~/).length
SplitLength(s) ==
  1 + Cardinality({i \in DOMAIN s : IsSpace(s[i]) \/ s[i] \in {">", "+", "~"}})

ChainLength(selector) ==
  SplitLength(CollapseSpaces(StripAroundCombinators(selector, 1)))

-----------------------------------------------------------------------------
(* Array.prototype.sort(function decreasingOrder(a, b) { return b.count - a.count })
   The lists of the model hold at most ten entries, for which every engine's
   sort is an insertion sort: entries of equal count keep their order. *)

RECURSIVE InsertDecreasing(_, _)
InsertDecreasing(sorted, x) ==
  IF sorted = <<>> THEN <<x>>
  ELSE IF Head(sorted).count >= x.count
       THEN <<Head(sorted)>> \o InsertDecreasing(Tail(sorted), x)
       ELSE <<x>> \o sorted

RECURSIVE SortDecreasing(_)
SortDecreasing(list) ==
  IF list = <<>> THEN <<>>
  ELSE InsertDecreasing(SortDecreasing(SubSeq(list, 1, Len(list) - 1)), list[Len(list)])

\* Array.prototype.slice(0, n), n already an integer
Slice0(list, n) ==
  LET len == Len(list)
      to  == IF n < 0 THEN (IF len + n < 0 THEN 0 ELSE len + n)
             ELSE (IF n > len THEN len ELSE n)
  IN SubSeq(list, 1, to)

-----------------------------------------------------------------------------
(* analyzeRules *)

\* entries only for the rules whose declaration list is not empty
RECURSIVE RuleEntriesNotEmpty(_)
RuleEntriesNotEmpty(rs) ==
  IF rs = <<>> THEN <<>>
  ELSE (IF Head(rs).isArray /\ Head(rs).declarations # <<>>
        THEN <<[selector |-> Head(rs).selectors, count |-> Len(Head(rs).declarations)]>>
        ELSE <<>>) \o RuleEntriesNotEmpty(Tail(rs))

\* rule.declarations is an array (isArray), or the rule has none
RECURSIVE RuleEntries(_)
RuleEntries(rs) ==
  IF rs = <<>> THEN <<>>
  ELSE (IF Head(rs).isArray
        THEN <<[selector |-> Head(rs).selectors, count |-> Len(Head(rs).declarations)]>>
        ELSE <<>>) \o RuleEntries(Tail(rs))

analyzeRules(rs) == [cssDeclarations |-> SortDecreasing(RuleEntries(rs))]

-----------------------------------------------------------------------------
(* analyzeSelectors *)

IsSeparator(c) == IsSpace(c) \/ c \in {">", "+", "~"}

\* selectorParser.parse(selector): the chain of compound selectors, each with
\* what the parser found in it (id, classNames, tagName, attrs)
RECURSIVE Compounds(_, _)
Compounds(s, cur) ==
  IF s = <<>> THEN (IF cur = <<>> THEN <<>> ELSE <<cur>>)
  ELSE IF IsSeparator(Head(s))
       THEN (IF cur = <<>> THEN <<>> ELSE <<cur>>) \o Compounds(Tail(s), <<>>)
       ELSE Compounds(Tail(s), Append(cur, Head(s)))

ParseRule(compound) ==
  [id         |-> \E i \in DOMAIN compound : compound[i] = "#",
   classNames |-> \E i \in DOMAIN compound : compound[i] = ".",
   tagName    |-> IsLower(compound[1]) \/ compound[1] = "*",
   universal  |-> compound[1] = "*",
   attrs      |-> \E i \in DOMAIN compound : compound[i] = "["]

ParseRules(cs) == [i \in DOMAIN cs |-> ParseRule(cs[i])]

Parse(selector) == ParseRules(Compounds(selector, <<>>))

\* regexp.test(str) of a RegExp with the g flag whose source is the literal
\* pattern: the search starts at lastIndex, which a match moves to its end and a
\* failure resets. Returns <<matched, lastIndex>>.
TestResult(pattern, hit) ==
  IF hit = 0 THEN <<FALSE, 0>> ELSE <<TRUE, hit - 1 + Len(pattern)>>

\* whether the pattern, a sequence of literal characters and of the wildcard
\* ".", matches in str at (1-based) position i
PatternMatchesAt(str, pattern, i) ==
  /\ i + Len(pattern) - 1 <= Len(str)
  /\ \A k \in 1..Len(pattern) : pattern[k] = "." \/ str[i + k - 1] = pattern[k]

\* the least position >= from at which the pattern matches, 0 when none does
PatternFind(str, pattern, from) ==
  Least({i \in from..(Len(str) + 1) : PatternMatchesAt(str, pattern, i)})

RegExpTest(pattern, lastIndex, str) ==
  TestResult(pattern,
             IF lastIndex > Len(str) THEN 0 ELSE PatternFind(str, pattern, lastIndex + 1))

B2N(b) == IF b THEN 1 ELSE 0

\* the body of this.selectors.forEach, on the result so far (lastIndex is
\* regexp.lastIndex, the state of the RegExp built before the loop)
SelectorCounted(result, selector, chain, test) ==
  LET hasId    == \E i \in DOMAIN chain : chain[i].id
      hasClass == \E i \in DOMAIN chain : chain[i].classNames
      hasTag   == \E i \in DOMAIN chain : chain[i].tagName
      hasUniversal == \E i \in DOMAIN chain : chain[i].universal
      hasAttr  == \E i \in DOMAIN chain : chain[i].attrs
      hasUnqAttr == \E i \in DOMAIN chain :
                      /\ chain[i].attrs
                      /\ ~chain[i].tagName /\ ~chain[i].id /\ ~chain[i].classNames
  IN [idSelectors |-> result.idSelectors + B2N(hasId),
      universalSelectors |-> result.universalSelectors + B2N(hasUniversal),
      attributeSelectors |-> result.attributeSelectors + B2N(hasAttr),
      unqualifiedAttributeSelectors |->
          result.unqualifiedAttributeSelectors + B2N(hasUnqAttr),
      javascriptSpecificSelectors |-> result.javascriptSpecificSelectors + B2N(test[1]),
      elementSelectors |-> result.elementSelectors + B2N(hasTag),
      classSelectors |-> result.classSelectors + B2N(hasClass),
      identifiers |-> Append(result.identifiers,
                             [selector |-> selector, count |-> ChainLength(selector)]),
      lastIndex |-> test[2]]

SelectorStep(result, pattern, selector) ==
  SelectorCounted(result, selector, Parse(selector),
                  RegExpTest(pattern, result.lastIndex, trim(selector)))

RECURSIVE SelectorLoop(_, _, _)
SelectorLoop(result, pattern, sels) ==
  IF sels = <<>> THEN result
  ELSE SelectorLoop(SelectorStep(result, pattern, Head(sels)), pattern, Tail(sels))

SelectorStart ==
  [idSelectors |-> 0, universalSelectors |-> 0, attributeSelectors |-> 0,
   unqualifiedAttributeSelectors |-> 0, javascriptSpecificSelectors |-> 0,
   elementSelectors |-> 0, classSelectors |-> 0, identifiers |-> <<>>, lastIndex |-> 0]

SortIdentifiers(result) == [result EXCEPT !.identifiers = SortDecreasing(@)]

analyzeSelectors(sels, pattern) ==
  SortIdentifiers(SelectorLoop(SelectorStart, pattern, sels))

-----------------------------------------------------------------------------
(* analyzeDeclarations: the colour of a value *)

\* the least position >= i of s that holds no whitespace (\s*)
RECURSIVE SkipSpaces(_, _)
SkipSpaces(s, i) == IF i <= Len(s) /\ IsSpace(s[i]) THEN SkipSpaces(s, i + 1) ELSE i

\* the least position >= i of s that holds no digit
RECURSIVE SkipDigits(_, _)
SkipDigits(s, i) == IF i <= Len(s) /\ IsDigit(s[i]) THEN SkipDigits(s, i + 1) ELSE i

\* the least position >= i of s that holds no word character (\w*)
RECURSIVE SkipWord(_, _)
SkipWord(s, i) == IF i <= Len(s) /\ IsWord(s[i]) THEN SkipWord(s, i + 1) ELSE i

\* the number a string of digits denotes (r*1)
RECURSIVE ToNumber(_)
ToNumber(ds) ==
  IF ds = <<>> THEN 0
  ELSE 10 * ToNumber(SubSeq(ds, 1, Len(ds) - 1)) + (PosIn(Digits, ds[Len(ds)]) - 1)

\* Number.prototype.toString(16)
RECURSIVE ToString16(_)
ToString16(n) ==
  IF n < 16 THEN <<HexDigits[n + 1]>>
  ELSE ToString16(n \div 16) \o <<HexDigits[(n % 16) + 1]>>

\* "#" + ((1 << 24) + (r*1 << 16) + (g*1 << 8) + b*1).toString(16).slice(1)
rgbToHex(r, g, b) ==
  <<"#">> \o Tail(ToString16(16777216 + ToNumber(r) * 65536 + ToNumber(g) * 256
                              + ToNumber(b)))

\* (\d{1,3})\s*, read at position i: <<matched, the digits, the position after>>
ChannelEnds(s, i, e, c) ==
  IF e - i >= 1 /\ e - i <= 3 /\ c <= Len(s) /\ s[c] = ","
  THEN <<TRUE, SubSeq(s, i, e - 1), SkipSpaces(s, c + 1)>>
  ELSE <<FALSE, <<>>, 0>>

ChannelDigits(s, i, e) == ChannelEnds(s, i, e, SkipSpaces(s, e))

Channel(s, i) == ChannelDigits(s, i, SkipDigits(s, i))

RECURSIVE SkipA(_, _)
SkipA(s, i) == IF i <= Len(s) /\ s[i] = "a" THEN SkipA(s, i + 1) ELSE i

\* rgbRegex = /rgba*\(\s*(\d{1,3})\s*,\s*(\d{1,3})\s*,\s*(\d{1,3})\s*,\s*.*\)/
\* tried at position p: <<matched, r, g, b>>
NoRgb == <<FALSE, <<>>, <<>>, <<>>>>

rgbBlue(s, r, g, b) ==
  IF b[1] /\ \E k \in b[3]..Len(s) : s[k] = ")" THEN <<TRUE, r[2], g[2], b[2]>> ELSE NoRgb

rgbGreen(s, r, g) == IF g[1] THEN rgbBlue(s, r, g, Channel(s, g[3])) ELSE NoRgb

rgbRed(s, r) == IF r[1] THEN rgbGreen(s, r, Channel(s, r[3])) ELSE NoRgb

rgbOpen(s, a) ==
  IF a > Len(s) \/ s[a] # "(" THEN NoRgb ELSE rgbRed(s, Channel(s, SkipSpaces(s, a + 1)))

rgbRegexAt(s, p) ==
  IF MatchesAt(s, <<"r","g","b">>, p) THEN rgbOpen(s, SkipA(s, p + 3)) ELSE NoRgb

rgbRegexFirst(s, p) == IF p = 0 THEN NoRgb ELSE rgbRegexAt(s, p)

\* value.match(rgbRegex)
rgbRegex(s) == rgbRegexFirst(s, Least({p \in 1..Len(s) : rgbRegexAt(s, p)[1]}))

\* value.match(hexColorRegex), hexColorRegex = /#(\w*)/: <<matched, group 1>>
hexColorAt(s, p) ==
  IF p = 0 THEN <<FALSE, <<>>>> ELSE <<TRUE, SubSeq(s, p + 1, SkipWord(s, p + 1) - 1)>>

hexColorRegex(s) == hexColorAt(s, Find(s, <<"#">>, 1))

\* \b between positions i - 1 and i of s
WordBoundary(s, i) ==
  (i - 1 >= 1 /\ i - 1 <= Len(s) /\ IsWord(s[i - 1]))
    # (i >= 1 /\ i <= Len(s) /\ IsWord(s[i]))

\* one alternative of namedColorsRegex tried with the match starting at p;
\* alt 1 is \W(nc)\b and alt 2 is ^(nc)\b. The position of the group, or 0.
NamedAlternativeAt(s, nc, alt, p) ==
  IF alt = 1
  THEN IF p <= Len(s) /\ ~IsWord(s[p]) /\ MatchesAtI(s, nc, p + 1)
          /\ WordBoundary(s, p + 1 + Len(nc))
       THEN p + 1 ELSE 0
  ELSE IF p = 1 /\ MatchesAtI(s, nc, 1) /\ WordBoundary(s, 1 + Len(nc))
       THEN 1 ELSE 0

\* value.match(namedColorsRegex) followed by .slice(1).filter(nc => nc): the
\* groups that took part in the leftmost match, its first alternative in the
\* order of namedColors; <<matched, the groups>>
Before(t, u) ==
  \/ t[1] < u[1]
  \/ t[1] = u[1] /\ t[2] < u[2]
  \/ t[1] = u[1] /\ t[2] = u[2] /\ t[3] <= u[3]

NamedGroup(s, nc, at) ==
  <<TRUE, IF nc = <<>> THEN <<>> ELSE <<SubSeq(s, at, at + Len(nc) - 1)>> >>

NamedFirst(s, namedColors, tries) ==
  IF tries = {} THEN <<FALSE, <<>>>>
  ELSE LET t == CHOOSE x \in tries : \A y \in tries : Before(x, y)
       IN NamedGroup(s, namedColors[t[2]],
                     NamedAlternativeAt(s, namedColors[t[2]], t[3], t[1]))

namedColorsRegex(s, namedColors) ==
  IF namedColors = <<>> THEN <<TRUE, <<>>>>     \* new RegExp('') matches anything
  ELSE NamedFirst(s, namedColors,
                  {t \in (1..(Len(s) + 1)) \X (1..Len(namedColors)) \X {1, 2} :
                     NamedAlternativeAt(s, namedColors[t[2]], t[3], t[1]) > 0})

\* extractColor(value): [defined, colors]; undefined when defined is FALSE
NoColor == [defined |-> FALSE, colors |-> <<>>]

extractNamed(namedColor) ==
  IF namedColor[1] THEN [defined |-> TRUE, colors |-> namedColor[2]] ELSE NoColor

extractHex(value, namedColors, hexColor) ==
  IF hexColor[1] THEN [defined |-> TRUE, colors |-> <<<<"#">> \o hexColor[2]>>]
  ELSE extractNamed(namedColorsRegex(value, namedColors))

extractRgb(value, namedColors, rgb) ==
  IF rgb[1] THEN [defined |-> TRUE, colors |-> <<rgbToHex(rgb[2], rgb[3], rgb[4])>>]
  ELSE extractHex(value, namedColors, hexColorRegex(value))

extractColor(value, namedColors) ==
  IF Contains(value, <<"g","r","a","d","i","e","n","t">>) THEN NoColor
  ELSE extractRgb(value, namedColors, rgbRegex(value))

TRANSPARENT == <<"T","R","A","N","S","P","A","R","E","N","T">>
INHERIT == <<"I","N","H","E","R","I","T">>

IsUpperHex(c) == IsDigit(c) \/ c \in {"A","B","C","D","E","F"}

\* the normalisation addColor gives one colour
\* color.replace(/^#(\w)(\w)(\w)$/, '#$1$1$2$2$3$3') when /^#([0-9A-F]){3}$/ matches
ExpandHex(c) ==
  IF Len(c) = 4 /\ c[1] = "#" /\ \A i \in 2..4 : IsUpperHex(c[i])
  THEN <<"#", c[2], c[2], c[3], c[3], c[4], c[4]>>
  ELSE c

NormalizeColor(color) == ExpandHex(trim(toUpperCase(RemoveFirst(color, Important))))

\* keeping every colour but TRANSPARENT
KeepsAllButTransparent(color) == color # TRANSPARENT

\* the colours addColor keeps (resultColors)
KeepsColor(color) == color # TRANSPARENT /\ color # INHERIT

Kept(color) == IF KeepsColor(color) THEN <<color>> ELSE <<>>

RECURSIVE addColor(_)
addColor(colors) ==
  IF colors = <<>> THEN <<>>
  ELSE Kept(NormalizeColor(Head(colors))) \o addColor(Tail(colors))

-----------------------------------------------------------------------------
(* analyzeDeclarations *)

\* a mapping with key set to value (an own property of a JS object)
Put(map, key, value) ==
  [k \in (DOMAIN map) \cup {key} |-> IF k = key THEN value ELSE map[k]]

\* dic[key] = count ? ++count : 1
Count(dic, key) == Put(dic, key, IF key \in DOMAIN dic THEN dic[key] + 1 ELSE 1)

IsDataUriChar(c) ==
  IsLower(c) \/ IsUpper(c) \/ IsDigit(c) \/ c \in {";", ",", "+", "=", "/"}

RECURSIVE SkipDataUri(_, _)
SkipDataUri(s, i) ==
  IF i <= Len(s) /\ IsDataUriChar(s[i]) THEN SkipDataUri(s, i + 1) ELSE i

DataImage == <<"d","a","t","a",":","i","m","a","g","e">>

\* '' + value.match(/data\:image\/[A-Za-z0-9;,\+\=\/]+/): the first token, or
\* the text of null when nothing matches
DataImageSlash == DataImage \o <<"/">>

DataUriAt(value, p) ==
  IF p = 0 THEN <<"n","u","l","l">>
  ELSE SubSeq(value, p, SkipDataUri(value, p + Len(DataImageSlash)) - 1)

DataUriMatch(value) ==
  DataUriAt(value, Least({p \in 1..Len(value) :
                            /\ MatchesAt(value, DataImageSlash, p)
                            /\ p + Len(DataImageSlash) <= Len(value)
                            /\ IsDataUriChar(value[p + Len(DataImageSlash)])}))

\* colorPropertyRegex = /^color$|^background$|^background-color$|^border/
colorPropertyRegex(property) ==
  \/ property = <<"c","o","l","o","r">>
  \/ property = <<"b","a","c","k","g","r","o","u","n","d">>
  \/ property = <<"b","a","c","k","g","r","o","u","n","d","-","c","o","l","o","r">>
  \/ MatchesAt(property, <<"b","o","r","d","e","r">>, 1)

\* a lookup that never finds the source
IndexOfNothing(sources, source) == -1

\* sources.indexOf(source) < 0
IndexOfSource(sources, source) == PosIn(sources, source) - 1

\* addToSourceMap(groupName, item, source) on self.sourceMap.values
addToGroup(values, groupName, group, item, source) ==
  IF item \notin DOMAIN group
  THEN Put(values, groupName, Put(group, item, <<source>>))
  ELSE IF IndexOfSource(group[item], source) < 0
       THEN Put(values, groupName, Put(group, item, Append(group[item], source)))
       ELSE values

addToSourceMap(values, groupName, item, source) ==
  addToGroup(values, groupName,
             IF groupName \in DOMAIN values THEN values[groupName] ELSE <<>>,
             item, source)

RECURSIVE addAllToSourceMap(_, _, _, _)
addAllToSourceMap(values, groupName, items, source) ==
  IF items = <<>> THEN values
  ELSE addAllToSourceMap(addToSourceMap(values, groupName, Head(items), source),
                         groupName, Tail(items), source)

RECURSIVE CountAll(_, _)
CountAll(dic, keys) ==
  IF keys = <<>> THEN dic ELSE CountAll(Count(dic, Head(keys)), Tail(keys))

\* a count that is set to 1 and never incremented
CountPropertyOnce(properties, property) ==
  IF \E i \in DOMAIN properties : properties[i].property = property
  THEN properties
  ELSE Append(properties, [property |-> property, count |-> 1])

\* result.properties[declaration.property] += 1, or = 1: the keys in the order
\* they were first set, which Object.keys follows
CountProperty(properties, property) ==
  IF \E i \in DOMAIN properties : properties[i].property = property
  THEN [i \in DOMAIN properties |->
          IF properties[i].property = property
          THEN [properties[i] EXCEPT !.count = @ + 1] ELSE properties[i]]
  ELSE Append(properties, [property |-> property, count |-> 1])

FontFamily == <<"f","o","n","t","-","f","a","m","i","l","y">>
FontSize == <<"f","o","n","t","-","s","i","z","e">>
Float == <<"f","l","o","a","t">>

\* analyzeDeclaration(declaration) on the result so far
Recorded(result, d, isFamily, fFamily, isSize, fSize, isColor, addedColors) ==
     [dataUriSize |-> IF Contains(d.value, DataImage)
                      THEN result.dataUriSize \o DataUriMatch(d.value)
                      ELSE result.dataUriSize,
      importantKeywords |-> result.importantKeywords + B2N(Contains(d.value, Important)),
      floatProperties |-> result.floatProperties + B2N(Contains(d.property, Float)),
      uniqueFontFamily |-> IF isFamily THEN Append(result.uniqueFontFamily, fFamily)
                           ELSE result.uniqueFontFamily,
      uniqueFontFamilyDic |-> IF isFamily THEN Count(result.uniqueFontFamilyDic, fFamily)
                              ELSE result.uniqueFontFamilyDic,
      uniqueFontSize |-> IF isSize THEN Append(result.uniqueFontSize, fSize)
                         ELSE result.uniqueFontSize,
      uniqueFontSizeDic |-> IF isSize THEN Count(result.uniqueFontSizeDic, fSize)
                            ELSE result.uniqueFontSizeDic,
      uniqueColor |-> result.uniqueColor \o addedColors,
      uniqueColorDic |-> CountAll(result.uniqueColorDic, addedColors),
      unhandledColors |-> IF isColor /\ addedColors = <<>>
                          THEN Count(result.unhandledColors, d.value)
                          ELSE result.unhandledColors,
      properties |-> CountProperty(result.properties, d.property),
      sourceMap |->
        addAllToSourceMap(
          IF isSize
          THEN addToSourceMap(
                 IF isFamily
                 THEN addToSourceMap(result.sourceMap, "font-family", fFamily, d.source)
                 ELSE result.sourceMap,
                 "font-size", fSize, d.source)
          ELSE IF isFamily
               THEN addToSourceMap(result.sourceMap, "font-family", fFamily, d.source)
               ELSE result.sourceMap,
          "color", addedColors, d.source)]

\* addColor(extractColor(declaration.value)), for a colour-bearing property
AddedColors(isColor, value, namedColors) ==
  IF isColor THEN addColor(extractColor(value, namedColors).colors) ELSE <<>>

analyzeDeclaration(result, d, namedColors) ==
  Recorded(result, d,
           Contains(d.property, FontFamily), trim(RemoveAll(d.value, Important)),
           Contains(d.property, FontSize), trim(RemoveFirst(d.value, Important)),
           colorPropertyRegex(d.property),
           AddedColors(colorPropertyRegex(d.property), d.value, namedColors))

RECURSIVE DeclarationLoop(_, _, _)
DeclarationLoop(result, ds, namedColors) ==
  IF ds = <<>> THEN result
  ELSE DeclarationLoop(analyzeDeclaration(result, Head(ds), namedColors),
                       Tail(ds), namedColors)

\* _.uniq(list)
AppendNew(init, x) == IF \E i \in DOMAIN init : init[i] = x THEN init ELSE Append(init, x)

RECURSIVE Uniq(_)
Uniq(list) ==
  IF list = <<>> THEN <<>>
  ELSE AppendNew(Uniq(SubSeq(list, 1, Len(list) - 1)), list[Len(list)])

\* _.sortBy(list) of distinct strings: ascending by < on strings
RECURSIVE InsertString(_, _)
InsertString(sorted, x) ==
  IF sorted = <<>> THEN <<x>>
  ELSE IF StrLess(x, Head(sorted)) THEN <<x>> \o sorted
       ELSE <<Head(sorted)>> \o InsertString(Tail(sorted), x)

RECURSIVE SortStrings(_)
SortStrings(list) ==
  IF list = <<>> THEN <<>>
  ELSE InsertString(SortStrings(SubSeq(list, 1, Len(list) - 1)), list[Len(list)])

\* item.replace(/[^0-9\.]/g, '') - 0, as the fraction num / den; nan when the
\* text left is no number
RECURSIVE KeepNumeric(_)
KeepNumeric(s) ==
  IF s = <<>> THEN <<>>
  ELSE (IF IsDigit(Head(s)) \/ Head(s) = "." THEN <<Head(s)>> ELSE <<>>)
       \o KeepNumeric(Tail(s))

RECURSIVE Pow10(_)
Pow10(n) == IF n = 0 THEN 1 ELSE 10 * Pow10(n - 1)

\* text - 0, for a text of digits and dots, with its first dot at position dot
NumberAt(text, dots, dot) ==
  IF Cardinality(dots) > 1 \/ (Cardinality(dots) = 1 /\ Len(text) = 1)
  THEN [nan |-> TRUE, num |-> 0, den |-> 1]
  ELSE [nan |-> FALSE,
        num |-> ToNumber(SubSeq(text, 1, dot - 1) \o SubSeq(text, dot + 1, Len(text))),
        den |-> Pow10(IF dots = {} THEN 0 ELSE Len(text) - dot)]

NumberWithDots(text, dots) ==
  NumberAt(text, dots, IF dots = {} THEN Len(text) + 1 ELSE Least(dots))

NumberOf(text) == NumberWithDots(text, {i \in DOMAIN text : text[i] = "."})

FontSizeKey(item) == NumberOf(KeepNumeric(item))

\* a > b on two such numbers
KeyGreater(a, b) == ~a.nan /\ ~b.nan /\ a.num * b.den > b.num * a.den

\* _.sortBy(list, by the number in the item): ascending, equal keys in order
RECURSIVE InsertFontSize(_, _)
InsertFontSize(sorted, x) ==
  IF sorted = <<>> THEN <<x>>
  ELSE IF KeyGreater(FontSizeKey(Head(sorted)), FontSizeKey(x)) THEN <<x>> \o sorted
       ELSE <<Head(sorted)>> \o InsertFontSize(Tail(sorted), x)

RECURSIVE SortFontSizes(_)
SortFontSizes(list) ==
  IF list = <<>> THEN <<>>
  ELSE InsertFontSize(SortFontSizes(SubSeq(list, 1, Len(list) - 1)), list[Len(list)])

\* Buffer.byteLength(str, 'utf8'), every character used being one byte
dataUriSizeToBytes(str) == Len(str)

\* sortAnalyzeData
sortAnalyzeData(result) ==
  [result EXCEPT !.uniqueFontFamily = SortStrings(Uniq(@)),
                 !.uniqueFontSize = SortFontSizes(Uniq(@)),
                 !.uniqueColor = SortStrings(Uniq(@)),
                 !.properties = SortDecreasing(@)]

DeclarationStart(values) ==
  [dataUriSize |-> <<>>, importantKeywords |-> 0, floatProperties |-> 0,
   uniqueFontSize |-> <<>>, uniqueFontSizeDic |-> <<>>,
   uniqueFontFamily |-> <<>>, uniqueFontFamilyDic |-> <<>>,
   uniqueColor |-> <<>>, uniqueColorDic |-> <<>>,
   unhandledColors |-> <<>>, properties |-> <<>>, sourceMap |-> values]

ToBytes(result) == [result EXCEPT !.dataUriSize = dataUriSizeToBytes(@)]

analyzeDeclarations(ds, namedColors, values) ==
  sortAnalyzeData(ToBytes(DeclarationLoop(DeclarationStart(values), ds, namedColors)))

-----------------------------------------------------------------------------
(* The values of options: undefined (an absent option), booleans, numbers,
   strings and arrays *)

Undefined == [type |-> "undefined", val |-> 0, str |-> <<>>]
Bool(b)   == [type |-> "boolean", val |-> B2N(b), str |-> <<>>]
Num(n)    == [type |-> "number", val |-> n, str |-> <<>>]
Str(s)    == [type |-> "string", val |-> 0, str |-> s]
Arr(a)    == [type |-> "array", val |-> 0, str |-> a]

\* if (x)
Truthy(x) ==
  CASE x.type = "string" -> x.str # <<>>
    [] x.type = "array" -> TRUE
    [] OTHER -> x.val # 0

\* ToInteger(x), which Array.prototype.slice gives its arguments
ToInteger(x) == IF x.type \in {"boolean", "number"} THEN x.val ELSE 0

\* the source of new RegExp(x, 'g')
RegExpSource(x) ==
  CASE x.type = "string" -> x.str
    [] x.type = "boolean" -> IF x.val = 1 THEN <<"t","r","u","e">>
                             ELSE <<"f","a","l","s","e">>
    [] OTHER -> <<>>

\* the options that name a metric of the result
MetricKeys == {
  "size", "dataUriSize", "ratioOfDataUriSize", "gzippedSize", "rules", "selectors",
  "simplicity", "mostIdentifierSelector", "mostIdentifier", "lowestCohesion",
  "lowestCohesionSelector", "totalUniqueFontSizes", "uniqueFontSize",
  "uniqueFontSizeDic", "totalUniqueFontFamilies", "uniqueFontFamily",
  "uniqueFontFamilyDic", "totalUniqueColors", "uniqueColor", "uniqueColorDic",
  "idSelectors", "universalSelectors", "unqualifiedAttributeSelectors",
  "attributeSelectors", "elementSelectors", "classSelectors",
  "javascriptSpecificSelectors", "importantKeywords", "floatProperties",
  "propertiesCount", "sourceMap"}

OptionKeys == MetricKeys \cup {"mostIdentifierCount", "namedColors"}

\* a / b on two non-negative integers
Divide(a, b) ==
  [kind |-> IF b # 0 THEN "finite" ELSE IF a = 0 THEN "NaN" ELSE "Infinity",
   num |-> a, den |-> b]

-----------------------------------------------------------------------------
(* analyze *)

\* Array.prototype.shift: the element removed, when there is one
Shift(list) == IF list = <<>> THEN <<>> ELSE <<Head(list)>>

\* simplicity derived without asking for its own option
SimplicityWithoutItsOption(opt) == Truthy(opt["rules"]) /\ Truthy(opt["selectors"])

\* this.options.rules && this.options.selectors && this.options.simplicity
SimplicityEnabled(opt) ==
  Truthy(opt["rules"]) /\ Truthy(opt["selectors"]) /\ Truthy(opt["simplicity"])

\* this.options.dataUriSize && this.options.ratioOfDataUriSize
RatioEnabled(opt) == Truthy(opt["dataUriSize"]) /\ Truthy(opt["ratioOfDataUriSize"])

\* the keys analyze sets, given the three analyses
AnalysisKeys(opt, ra, sa, da) ==
  LET on(k) == Truthy(opt[k])
      mostIdentifier == Shift(sa.identifiers)
      lowestDefinition == Shift(ra.cssDeclarations)
  IN {k \in MetricKeys :
        CASE k = "ratioOfDataUriSize" -> RatioEnabled(opt) /\ da.dataUriSize # 0
          [] k = "simplicity" -> SimplicityEnabled(opt)
          [] k = "mostIdentifierSelector" ->
               on("mostIdentifierSelector") /\ on("mostIdentifierCount")
          [] k = "mostIdentifier" -> mostIdentifier # <<>> /\ on("mostIdentifier")
          [] k = "lowestCohesion" -> lowestDefinition # <<>> /\ on("lowestCohesion")
          [] k = "lowestCohesionSelector" ->
               lowestDefinition # <<>> /\ on("lowestCohesionSelector")
          [] OTHER -> on(k)}

Selectors(identifiers) == [i \in DOMAIN identifiers |-> identifiers[i].selector]

\* the top-N read taken after identifiers.shift() instead of before it
TopIdentifiersAfterShift(identifiers, n) ==
  Selectors(Slice0(IF identifiers = <<>> THEN <<>> ELSE Tail(identifiers), n))

\* selectorAnalysis.identifiers.slice(0, mostIdentifierCount).map(selector),
\* read before identifiers.shift()
TopIdentifiers(identifiers, n) == Selectors(Slice0(identifiers, n))

\* the value analyze sets under key k
AnalysisValue(k, opt, rs, sels, size, gz, ra, sa, da) ==
  CASE k = "size" -> size
    [] k = "dataUriSize" -> da.dataUriSize
    [] k = "ratioOfDataUriSize" -> Divide(da.dataUriSize, size)
    [] k = "gzippedSize" -> gz
    [] k = "rules" -> Len(rs)
    [] k = "selectors" -> Len(sels)
    [] k = "simplicity" -> Divide(Len(rs), Len(sels))
    [] k = "mostIdentifierSelector" ->
         TopIdentifiers(sa.identifiers, ToInteger(opt["mostIdentifierCount"]))
    [] k = "mostIdentifier" -> Shift(sa.identifiers)[1].count
    [] k = "lowestCohesion" -> Shift(ra.cssDeclarations)[1].count
    [] k = "lowestCohesionSelector" -> Shift(ra.cssDeclarations)[1].selector
    [] k = "totalUniqueFontSizes" -> Len(da.uniqueFontSize)
    [] k = "uniqueFontSize" -> da.uniqueFontSize
    [] k = "uniqueFontSizeDic" -> da.uniqueFontSizeDic
    [] k = "totalUniqueFontFamilies" -> Len(da.uniqueFontFamily)
    [] k = "uniqueFontFamily" -> da.uniqueFontFamily
    [] k = "uniqueFontFamilyDic" -> da.uniqueFontFamilyDic
    [] k = "totalUniqueColors" -> Len(da.uniqueColor)
    [] k = "uniqueColor" -> da.uniqueColor
    [] k = "uniqueColorDic" -> da.uniqueColorDic
    [] k = "idSelectors" -> sa.idSelectors
    [] k = "universalSelectors" -> sa.universalSelectors
    [] k = "unqualifiedAttributeSelectors" -> sa.unqualifiedAttributeSelectors
    [] k = "attributeSelectors" -> sa.attributeSelectors
    [] k = "elementSelectors" -> sa.elementSelectors
    [] k = "classSelectors" -> sa.classSelectors
    [] k = "javascriptSpecificSelectors" -> sa.javascriptSpecificSelectors
    [] k = "importantKeywords" -> da.importantKeywords
    [] k = "floatProperties" -> da.floatProperties
    [] k = "propertiesCount" -> Slice0(da.properties, ToInteger(opt["propertiesCount"]))
    [] k = "sourceMap" -> da.sourceMap

\* what analyze computes: the result it returns when nothing throws, and the
\* SourceMap it leaves
Assembled(opt, rs, sels, size, gz, ra, sa, da) ==
  [result |-> [k \in AnalysisKeys(opt, ra, sa, da) |->
                 AnalysisValue(k, opt, rs, sels, size, gz, ra, sa, da)],
   sourceMap |-> da.sourceMap,
   declarationAnalysis |-> da,
   ruleAnalysis |-> ra,
   selectorAnalysis |-> sa]

analyzeOutcome(opt, rs, sels, ds, size, gz, values) ==
  Assembled(opt, rs, sels, size, gz,
            analyzeRules(rs),
            analyzeSelectors(sels, RegExpSource(opt["javascriptSpecificSelectors"])),
            analyzeDeclarations(ds, opt["namedColors"].str, values))

Outcome == analyzeOutcome(options, rules, selectors, declarations, cssSize, gzip, sourceMap)

\* gzipSize.sync(this.cssString) is called, and throws
GzipThrows == Truthy(options["gzippedSize"]) /\ gzip < 0

NoResult == [threw |-> FALSE, result |-> <<>>]

-----------------------------------------------------------------------------
(* The calls of analyze on one Analyzer *)

MaxRuns == 2

inputs == <<rules, selectors, declarations, cssSize, gzip, options>>

\* the three analyzers have run, and analyze returns o.result or throws
Ran(o, threw) ==
  /\ sourceMap' = o.sourceMap
  /\ ruleAnalysis' = o.ruleAnalysis
  /\ selectorAnalysis' = o.selectorAnalysis
  /\ declarationAnalysis' = o.declarationAnalysis
  /\ analysis' = [threw |-> threw, result |-> IF threw THEN <<>> ELSE o.result]

\* analyze() returns its result
Analyze ==
  /\ runs < MaxRuns
  /\ ~GzipThrows
  /\ Ran(Outcome, FALSE)
  /\ first' = IF runs = 0 THEN analysis' ELSE first
  /\ runs' = runs + 1
  /\ UNCHANGED inputs

\* analyze() is left by the exception of gzipSize.sync (line 587), after the
\* three analyzers have run
AnalyzeThrows ==
  /\ runs < MaxRuns
  /\ GzipThrows
  /\ Ran(Outcome, TRUE)
  /\ first' = IF runs = 0 THEN analysis' ELSE first
  /\ runs' = runs + 1
  /\ UNCHANGED inputs

Next == Analyze \/ AnalyzeThrows

\* new Analyzer(rules, selectors, declarations, cssString, cssSize, options,
\* sourceMap) with the source map { values: {} }
Constructed(optionPool, rulePool, selectorPool, declarationPool, sizePool, gzipPool) ==
  /\ options \in optionPool
  /\ rules \in rulePool
  /\ selectors \in selectorPool
  /\ declarations \in declarationPool
  /\ cssSize \in sizePool
  /\ gzip \in gzipPool
  /\ sourceMap = <<>>
  /\ analysis = NoResult
  /\ first = NoResult
  /\ ruleAnalysis = <<>>
  /\ selectorAnalysis = <<>>
  /\ declarationAnalysis = <<>>
  /\ runs = 0

Prefixes(list, n) == {SubSeq(list, 1, k) : k \in 0..(IF n < Len(list) THEN n ELSE Len(list))}

SeqsUpTo(S, n) == UNION {[1..k -> S] : k \in 0..n}

-----------------------------------------------------------------------------
(* Inputs *)

NamedColors == <<<<"r","e","d">>, <<"t","r","a","n","s","p","a","r","e","n","t">>, <<"i","n","h","e","r","i","t">>>>

JsHook == <<".","j","s","-">>

\* every metric enabled
AllOn ==
  [k \in OptionKeys |->
     CASE k = "mostIdentifierCount" -> Num(2)
       [] k = "propertiesCount" -> Num(2)
       [] k = "javascriptSpecificSelectors" -> Str(JsHook)
       [] k = "namedColors" -> Arr(NamedColors)
       [] OTHER -> Bool(TRUE)]

\* no option given but the list of named colours
AllOff == [k \in OptionKeys |-> IF k = "namedColors" THEN Arr(NamedColors) ELSE Undefined]

FlagKeys == OptionKeys \ {"namedColors"}

\* every option absent or false with the others enabled, every option enabled
\* alone, and the pairs that feed a derived metric
OptionPool ==
  {AllOn, AllOff}
    \cup {[AllOn EXCEPT ![k] = v] : k \in FlagKeys, v \in {Undefined, Bool(FALSE)}}
    \cup {[AllOff EXCEPT ![k] = AllOn[k]] : k \in FlagKeys}
    \cup {[AllOff EXCEPT ![k[1]] = AllOn[k[1]], ![k[2]] = AllOn[k[2]]] :
            k \in {<<"rules", "selectors">>, <<"rules", "simplicity">>,
                   <<"selectors", "simplicity">>,
                   <<"dataUriSize", "ratioOfDataUriSize">>,
                   <<"mostIdentifierSelector", "mostIdentifierCount">>,
                   <<"mostIdentifier", "mostIdentifierSelector">>}}

SampleSelectors == <<
  <<".","a"," ","#","b">>,
  <<".","a">>,
  <<"*",">",".","j","s","-","c"," ","[","x","]">>,
  <<"a"," ","~"," ","b">>>>

SampleDeclarations == <<
  [property |-> <<"b","a","c","k","g","r","o","u","n","d","-","i","m","a","g","e">>,
   value |-> <<"u","r","l","(","d","a","t","a",":","i","m","a","g","e","/","p","n","g",";","b","a","s","e","6","4",",","A","A","=","=",")">>,
   source |-> 1],
  [property |-> <<"c","o","l","o","r">>,
   value |-> <<"#","a","b","c">>,
   source |-> 1],
  [property |-> <<"f","o","n","t","-","s","i","z","e">>,
   value |-> <<"1","2","p","x"," ","!","i","m","p","o","r","t","a","n","t">>,
   source |-> 2],
  [property |-> <<"f","o","n","t","-","f","a","m","i","l","y">>,
   value |-> <<"s","e","r","i","f">>,
   source |-> 2],
  [property |-> <<"b","o","r","d","e","r","-","c","o","l","o","r">>,
   value |-> <<"T","r","a","n","s","p","a","r","e","n","t"," ","!","i","m","p","o","r","t","a","n","t">>,
   source |-> 2],
  [property |-> <<"c","o","l","o","r">>,
   value |-> <<"#","A","A","B","B","C","C">>,
   source |-> 3],
  [property |-> <<"f","l","o","a","t">>,
   value |-> <<"l","e","f","t">>,
   source |-> 3]>>

SampleRules == <<
  [selectors |-> SubSeq(SampleSelectors, 1, 2),
   declarations |-> SubSeq(SampleDeclarations, 1, 2), isArray |-> TRUE],
  [selectors |-> SubSeq(SampleSelectors, 3, 4),
   declarations |-> SubSeq(SampleDeclarations, 3, 5), isArray |-> TRUE],
  [selectors |-> <<>>, declarations |-> <<>>, isArray |-> FALSE]>>

\* gzipSize.sync returns a size, or throws
GzipPool == {-1, 20}

SizePool == {0, 64}

MaxInputs == 2

\* every option set of the pool on no input and on the sample; a few option
\* sets on every prefix of the sample's lists
Init ==
  \/ Constructed(OptionPool, {<<>>, SampleRules}, {<<>>, SampleSelectors},
                 {<<>>, SampleDeclarations}, SizePool, {20})
  \/ Constructed({AllOn, [AllOff EXCEPT !["gzippedSize"] = Bool(TRUE)]},
                 Prefixes(SampleRules, MaxInputs), Prefixes(SampleSelectors, MaxInputs),
                 Prefixes(SampleDeclarations, MaxInputs), SizePool, GzipPool)

Spec == Init /\ [][Next]_vars

Returned == runs > 0 /\ ~analysis.threw

Enabled(k) == Truthy(options[k])

-----------------------------------------------------------------------------
\* C1: the result of analyze holds a metric only if the option of that name is
\* enabled; simplicity only if rules, selectors and simplicity all are,
\* ratioOfDataUriSize only if dataUriSize is too, and mostIdentifierSelector
\* only if mostIdentifierCount is too.
C1_OnlyEnabledMetrics ==
  Returned =>
    \A k \in DOMAIN analysis.result :
      /\ k \in MetricKeys
      /\ Enabled(k)
      /\ k = "simplicity" => Enabled("rules") /\ Enabled("selectors")
      /\ k = "ratioOfDataUriSize" => Enabled("dataUriSize")
      /\ k = "mostIdentifierSelector" => Enabled("mostIdentifierCount")

\* a result with entries, from options that enable simplicity only in part
C1_Witness ==
  /\ Returned
  /\ DOMAIN analysis.result # {}
  /\ \E k \in {"rules", "selectors", "simplicity"} : ~Enabled(k)
  /\ \E k \in {"rules", "selectors", "simplicity"} : Enabled(k)
  /\ selectors # <<>> /\ rules # <<>>

\* C2: a derived ratio is in the result only when its divisor is not zero: no
\* simplicity when the selector list is empty, no ratioOfDataUriSize when
\* cssSize is 0.
C2_NoRatioOverZero ==
  Returned =>
    /\ Len(selectors) = 0 => "simplicity" \notin DOMAIN analysis.result
    /\ cssSize = 0 => "ratioOfDataUriSize" \notin DOMAIN analysis.result

\* C8: when gzippedSize is enabled and the compression function fails, analyze
\* still returns a result, which has no gzippedSize entry.
C8_GzipFailureRecovered ==
  (runs > 0 /\ Enabled("gzippedSize") /\ gzip < 0) =>
    /\ ~analysis.threw
    /\ "gzippedSize" \notin DOMAIN analysis.result

-----------------------------------------------------------------------------
(* Selector lists: the ranking by chain length, and the chain length of
   selectors padded with whitespace *)

MaxSelectors == 2
MaxCount == 2
MaxPad == 1

Pad(n) == [i \in 1..n |-> " "]

\* descendant whitespace, or a combinator with whitespace around it
Separators ==
  {Pad(m) : m \in 1..MaxPad}
    \cup {Pad(i) \o <<c>> \o Pad(j) : i \in 0..MaxPad, j \in 0..MaxPad, c \in {">", "+", "~"}}

\* one or two compound selectors, padded
PaddedSelectors ==
  {Pad(l) \o <<".","a">> \o Pad(t) : l \in 0..MaxPad, t \in 0..MaxPad}
    \cup {Pad(l) \o <<".","a">> \o sep \o <<".","b">> \o Pad(t) :
            l \in 0..MaxPad, t \in 0..MaxPad, sep \in Separators}

\* "  .a   >  .b ~ .c  "
PaddedExample == <<" "," ",".","a"," "," "," ",">"," "," ",".","b"," ","~"," ",".","c"," "," ">>

RankingOptions ==
  {[AllOn EXCEPT !["mostIdentifierCount"] = Num(n),
                 !["mostIdentifier"] = Bool(b[1]),
                 !["mostIdentifierSelector"] = Bool(b[2])] :
     n \in 0..MaxCount, b \in BOOLEAN \X BOOLEAN}

InitSelectors ==
  \/ Constructed(RankingOptions, {<<>>}, SeqsUpTo(Range(SampleSelectors), MaxSelectors),
                 {<<>>}, {64}, GzipPool)
  \/ Constructed({AllOn}, {<<>>}, {<<s>> : s \in PaddedSelectors \cup {PaddedExample}},
                 {<<>>}, {64}, {20})

SpecSelectors == InitSelectors /\ [][Next]_vars

\* C3: with mostIdentifier and mostIdentifierSelector both enabled, a count
\* N >= 1 and a selector list that is not empty, mostIdentifierSelector is the
\* selectors of the first min(N, selectors.length) entries of the whole ranking
\* (its head included), the ranking is in descending order of chain length, and
\* mostIdentifier is the count of its first entry.
C3_TopNFromIntactRanking ==
  (/\ Returned
   /\ Enabled("mostIdentifier") /\ Enabled("mostIdentifierSelector")
   /\ ToInteger(options["mostIdentifierCount"]) >= 1
   /\ selectors # <<>>)
  => LET ranking == selectorAnalysis.identifiers
         n == ToInteger(options["mostIdentifierCount"])
         m == IF n < Len(selectors) THEN n ELSE Len(selectors)
     IN /\ Len(ranking) = Len(selectors)
        /\ \A i \in 1..(Len(ranking) - 1) : ranking[i].count >= ranking[i + 1].count
        /\ analysis.result["mostIdentifierSelector"] = [i \in 1..m |-> ranking[i].selector]
        /\ analysis.result["mostIdentifier"] = ranking[1].count

\* both read from a ranking of two selectors of different chain length, given
\* in ascending order, with N = 1
C3_Witness ==
  /\ Returned
  /\ Enabled("mostIdentifier") /\ Enabled("mostIdentifierSelector")
  /\ ToInteger(options["mostIdentifierCount"]) = 1
  /\ Len(selectors) = 2
  /\ selectorAnalysis.identifiers[1].selector = selectors[2]
  /\ selectorAnalysis.identifiers[1].count > selectorAnalysis.identifiers[2].count

\* the compound selectors of a selector: the maximal runs of characters that
\* are neither whitespace nor a combinator
SegmentCount(s) ==
  Cardinality({i \in DOMAIN s : ~IsSeparator(s[i]) /\ (i = 1 \/ IsSeparator(s[i - 1]))})

\* C5: the chain length analyzeSelectors gives a selector is the number of its
\* compound selectors, whatever whitespace surrounds the combinators and the
\* selector.
C5_ChainLengthIsSegmentCount ==
  runs > 0 =>
    \A i \in DOMAIN selectorAnalysis.identifiers :
      selectorAnalysis.identifiers[i].count
        = SegmentCount(selectorAnalysis.identifiers[i].selector)

-----------------------------------------------------------------------------
(* Declaration lists: colours written every way, and lists of the sample's
   declarations under every kind of propertiesCount *)

MaxDeclarations == 2

\* a channel as it is written, and the two hex digits it stands for
Channels == << <<<<"0">>, <<"0","0">>>>, <<<<"1","6">>, <<"1","0">>>>,
               <<<<"2","5","5">>, <<"F","F">>>> >>

Alphas == {<<"0",".","5">>, <<"1">>}

\* rgb(r,g,b) when alpha is empty, rgba(r,g,b,alpha) otherwise
RgbValue(r, g, b, alpha) ==
  IF alpha = <<>>
  THEN <<"r","g","b","(">> \o r \o <<",">> \o g \o <<",">> \o b \o <<")">>
  ELSE <<"r","g","b","a","(">> \o r \o <<",">> \o g \o <<",">> \o b \o <<",">>
         \o alpha \o <<")">>

RgbValues ==
  {RgbValue(Channels[r][1], Channels[g][1], Channels[b][1], alpha) :
     r \in DOMAIN Channels, g \in DOMAIN Channels, b \in DOMAIN Channels,
     alpha \in Alphas \cup {<<>>}}

\* #xyz in either case, and #XXYYZZ in upper case
Hex3Values == {<<"#">> \o h : h \in [1..3 -> {"a", "F", "0"}]}
Hex6Values == {<<"#">> \o h \o k : h \in [1..3 -> {"A", "0"}], k \in [1..3 -> {"9", "F"}]}

Keywords == {
  <<"t","r","a","n","s","p","a","r","e","n","t">>,
  <<"T","R","A","N","S","P","A","R","E","N","T">>,
  <<"T","r","a","n","s","p","a","r","e","n","t">>,
  <<"i","n","h","e","r","i","t">>,
  <<"I","N","H","E","R","I","T">>,
  <<"I","n","h","e","r","i","t">>,
  <<"r","e","d">>,
  <<"R","E","D">>}

\* a keyword alone or in a shorthand, with or without an !important marker
KeywordValues ==
  {pre \o word \o post :
     pre \in {<<>>, Important \o <<" ">>, <<"1","p","x"," ","s","o","l","i","d"," ">>},
     word \in Keywords,
     post \in {<<>>, <<" ">> \o Important, Important}}

NamedColorLists == {NamedColors, <<NamedColors[1]>>, <<NamedColors[3], NamedColors[2]>>}

Color == <<"c","o","l","o","r">>
BorderLeft == <<"b","o","r","d","e","r","-","l","e","f","t">>

One(property, value) == <<[property |-> property, value |-> value, source |-> 1]>>

PropertiesCountOptions ==
  {[AllOn EXCEPT !["propertiesCount"] = v] :
     v \in {Bool(TRUE), Num(-1)} \cup {Num(n) : n \in 1..(MaxDeclarations + 1)}}

InitDeclarations ==
  \/ Constructed({AllOn}, {<<>>}, {<<>>},
                 {One(p, v) : p \in {Color, BorderLeft},
                              v \in RgbValues \cup Hex3Values \cup Hex6Values},
                 {64}, {20})
  \/ Constructed({[AllOn EXCEPT !["namedColors"] = Arr(l)] : l \in NamedColorLists},
                 {<<>>}, {<<>>}, {One(Color, v) : v \in KeywordValues}, {64}, {20})
  \/ Constructed(PropertiesCountOptions, {<<>>}, {<<>>},
                 SeqsUpTo({SampleDeclarations[i] : i \in {1, 2, 3, 4, 6}}, MaxDeclarations),
                 {64}, GzipPool)

SpecDeclarations == InitDeclarations /\ [][Next]_vars

RECURSIVE SumCounts(_)
SumCounts(list) == IF list = <<>> THEN 0 ELSE Head(list).count + SumCounts(Tail(list))

DistinctProperties == {declarations[i].property : i \in DOMAIN declarations}

HexOf(r, g, b) == <<"#">> \o Channels[r][2] \o Channels[g][2] \o Channels[b][2]

\* C6: for a colour-bearing declaration, rgb(r,g,b) and rgba(r,g,b,a) are
\* recorded in uniqueColor as #RRGGBB in upper case, #xyz as #XXYYZZ, and a
\* six-digit upper-case hex unchanged.
C6_ColorsAsUpperHex ==
  (runs > 0 /\ Len(declarations) = 1 /\ colorPropertyRegex(declarations[1].property)) =>
    LET value == declarations[1].value
        recorded == declarationAnalysis.uniqueColor
    IN /\ \A r \in DOMAIN Channels, g \in DOMAIN Channels, b \in DOMAIN Channels,
            alpha \in Alphas \cup {<<>>} :
            value = RgbValue(Channels[r][1], Channels[g][1], Channels[b][1], alpha)
              => recorded = <<HexOf(r, g, b)>>
       /\ value \in Hex3Values =>
            recorded = <<<<"#", UpperChar(value[2]), UpperChar(value[2]),
                           UpperChar(value[3]), UpperChar(value[3]),
                           UpperChar(value[4]), UpperChar(value[4])>>>>
       /\ value \in Hex6Values => recorded = <<value>>

IsKeyword(color) == color = TRANSPARENT \/ color = INHERIT

\* C7: neither TRANSPARENT nor INHERIT is in uniqueColor, a key of
\* uniqueColorDic or a key of the color group of the SourceMap.
C7_NoTransparentNoInherit ==
  runs > 0 =>
    /\ \A i \in DOMAIN declarationAnalysis.uniqueColor :
         ~IsKeyword(declarationAnalysis.uniqueColor[i])
    /\ \A c \in DOMAIN declarationAnalysis.uniqueColorDic : ~IsKeyword(c)
    /\ "color" \in DOMAIN sourceMap => \A c \in DOMAIN sourceMap["color"] : ~IsKeyword(c)

\* analyze has run on a colour whose value is inherit in mixed case, after an
\* !important marker, inherit being a named colour
C7_Witness ==
  /\ runs > 0
  /\ declarations = One(Color, Important \o <<" ">> \o <<"I","n","h","e","r","i","t">>)
  /\ \E i \in DOMAIN options["namedColors"].str :
       toUpperCase(options["namedColors"].str[i]) = INHERIT
  /\ declarationAnalysis.uniqueColor = <<>>
  /\ DOMAIN declarationAnalysis.unhandledColors = {declarations[1].value}

NoDuplicates(list) == \A i, j \in DOMAIN list : list[i] = list[j] => i = j

\* C9: a second run of analyze on the same Analyzer, with the SourceMap the
\* first run filled, returns the same result and leaves the SourceMap as it
\* was; no list of sources holds a source twice.
C9_SecondRunChangesNothing ==
  [][runs >= 1 =>
       /\ analysis' = analysis
       /\ sourceMap' = sourceMap
       /\ \A g \in DOMAIN sourceMap' : \A item \in DOMAIN sourceMap'[g] :
            NoDuplicates(sourceMap'[g][item])]_vars

\* after two runs that each took the head of the identifiers and of
\* cssDeclarations, a colour written at two sources
C9_Witness ==
  /\ runs = 2 /\ ~analysis.threw
  /\ Len(declarations) >= 2
  /\ "mostIdentifier" \in DOMAIN analysis.result
  /\ "lowestCohesion" \in DOMAIN analysis.result
  /\ "color" \in DOMAIN sourceMap
  /\ \E c \in DOMAIN sourceMap["color"] : Len(sourceMap["color"][c]) = 2
  /\ analysis = first

-----------------------------------------------------------------------------
(* Rule lists: rules with two, one or no declarations, and rules that have
   no declaration list *)

MaxRules == 2

RulePool ==
  {[selectors |-> <<SampleSelectors[n + 1]>>,
    declarations |-> SubSeq(SampleDeclarations, 1, n), isArray |-> TRUE] : n \in 0..2}
    \cup {[selectors |-> <<>>, declarations |-> <<>>, isArray |-> FALSE]}

\* the selectors and the declarations of a rule list, as the parser hands them
\* to the Analyzer beside it
RECURSIVE FlatSelectors(_)
FlatSelectors(rs) ==
  IF rs = <<>> THEN <<>> ELSE Head(rs).selectors \o FlatSelectors(Tail(rs))

RECURSIVE FlatDeclarations(_)
FlatDeclarations(rs) ==
  IF rs = <<>> THEN <<>> ELSE Head(rs).declarations \o FlatDeclarations(Tail(rs))

CohesionOptions ==
  {AllOn, [AllOn EXCEPT !["lowestCohesion"] = Bool(FALSE)],
   [AllOff EXCEPT !["lowestCohesionSelector"] = Bool(TRUE)]}

InitRules ==
  \E rs \in SeqsUpTo(RulePool, MaxRules) :
    Constructed(CohesionOptions, {rs}, {FlatSelectors(rs)}, {FlatDeclarations(rs)},
                {64}, GzipPool)

SpecRules == InitRules /\ [][Next]_vars

WithList == {i \in DOMAIN rules : rules[i].isArray}

\* C10 as the specification states it: only rules with a declaration list that
\* is not empty have an entry in cssDeclarations, so every count is at least 1,
\* and the result has neither lowestCohesion nor lowestCohesionSelector when
\* every rule has zero declarations.
C10_OnlyRulesWithDeclarations ==
  runs > 0 =>
    /\ \A i \in DOMAIN ruleAnalysis.cssDeclarations :
         ruleAnalysis.cssDeclarations[i].count >= 1
    /\ (Returned /\ \A i \in DOMAIN rules : Len(rules[i].declarations) = 0) =>
         /\ "lowestCohesion" \notin DOMAIN analysis.result
         /\ "lowestCohesionSelector" \notin DOMAIN analysis.result

\* C10, amended: every rule that has a declaration list, empty or not, has an
\* entry with its selectors and its number of declarations (0 for an empty
\* list), in descending order of count; only rules without a declaration list
\* have none. lowestCohesion and lowestCohesionSelector are absent exactly
\* when their option is disabled or no rule has a declaration list, and are
\* those of the first rule of the greatest count: 0 when every list is empty.
C10_EveryRuleWithAList ==
  runs > 0 =>
    LET entries == ruleAnalysis.cssDeclarations
        Entry(i) == [selector |-> rules[i].selectors, count |-> Len(rules[i].declarations)]
        greatest == CHOOSE i \in WithList :
                      \A j \in WithList :
                        \/ Entry(j).count < Entry(i).count
                        \/ Entry(j).count = Entry(i).count /\ i <= j
    IN /\ Len(entries) = Cardinality(WithList)
       /\ \A e \in {Entry(i) : i \in WithList} :
            Cardinality({k \in DOMAIN entries : entries[k] = e})
              = Cardinality({i \in WithList : Entry(i) = e})
       /\ \A k \in 1..(Len(entries) - 1) : entries[k].count >= entries[k + 1].count
       /\ Returned =>
            /\ "lowestCohesion" \in DOMAIN analysis.result
                 <=> (Enabled("lowestCohesion") /\ WithList # {})
            /\ "lowestCohesionSelector" \in DOMAIN analysis.result
                 <=> (Enabled("lowestCohesionSelector") /\ WithList # {})
            /\ "lowestCohesion" \in DOMAIN analysis.result =>
                 analysis.result["lowestCohesion"] = Entry(greatest).count
            /\ "lowestCohesionSelector" \in DOMAIN analysis.result =>
                 analysis.result["lowestCohesionSelector"] = Entry(greatest).selector

\* every rule has an empty declaration list, and lowestCohesion is 0
C10_Witness ==
  /\ Returned
  /\ rules # <<>>
  /\ \A i \in DOMAIN rules : rules[i].isArray /\ rules[i].declarations = <<>>
  /\ "lowestCohesion" \in DOMAIN analysis.result
  /\ analysis.result["lowestCohesion"] = 0

-----------------------------------------------------------------------------
(* Selector lists for the JavaScript hook: selectors that match the pattern
   at their start, further in, after whitespace that trim removes, and not
   at all *)

MaxHooks == 3

HookSelectors ==
  {<<".","j","s","-","a">>,
   <<"a"," ",".","j","s","-","b">>,
   <<" ",".","j","s","-","a"," ">>,
   <<".","c">>}

\* the configured patterns: the hook class with the wildcard "." before it,
\* and a literal
HookPatterns == {JsHook, <<"j","s","-">>}

InitHooks ==
  Constructed({[AllOn EXCEPT !["javascriptSpecificSelectors"] = Str(p)] : p \in HookPatterns},
              {<<>>}, SeqsUpTo(HookSelectors, MaxHooks), {<<>>}, {64}, GzipPool)

SpecHooks == InitHooks /\ [][Next]_vars

\* the selectors whose trimmed text matches the configured pattern, each
\* searched from its start
HookMatches ==
  {i \in DOMAIN selectors :
     PatternFind(trim(selectors[i]),
                 RegExpSource(options["javascriptSpecificSelectors"]), 1) > 0}

\* C11: after analyzeSelectors, javascriptSpecificSelectors is the number of
\* selectors of the list whose trimmed text matches the configured pattern,
\* whatever the order of the list and whatever was tested before a selector.
C11_HookTestedIndependently ==
  runs > 0 => selectorAnalysis.javascriptSpecificSelectors = Cardinality(HookMatches)

-----------------------------------------------------------------------------
(* Declaration lists for the data-URI size: values with a data:image/...
   token, with two, with data:image and no token, and with neither *)

MaxDataUris == 2

DataUriValues ==
  {SampleDeclarations[1].value,
   <<"u","r","l","(">> \o DataImage \o <<"/","a",")"," ">> \o DataImage \o <<"/","b","c">>,
   <<"u","r","l","(">> \o DataImage \o <<")">>,
   DataImage \o <<"/"," ","x">>,
   SampleDeclarations[2].value}

DataUriDeclarations ==
  {[property |-> SampleDeclarations[1].property, value |-> v, source |-> 1] :
     v \in DataUriValues}

InitDataUris ==
  Constructed({AllOn, [AllOff EXCEPT !["dataUriSize"] = Bool(TRUE)]},
              {<<>>}, {<<>>}, SeqsUpTo(DataUriDeclarations, MaxDataUris),
              SizePool, GzipPool)

SpecDataUris == InitDataUris /\ [][Next]_vars

\* the positions of a value at which a data:image/... token starts: the text
\* data:image/ followed by at least one character of the token's class
TokenStarts(value) ==
  {p \in 1..Len(value) :
     /\ MatchesAt(value, DataImageSlash, p)
     /\ p + Len(DataImageSlash) <= Len(value)
     /\ IsDataUriChar(value[p + Len(DataImageSlash)])}

\* the length of the first token of a value, 0 when it has none
TokenLength(value) ==
  IF TokenStarts(value) = {} THEN 0
  ELSE Len(DataUriAt(value, Least(TokenStarts(value))))

RECURSIVE TokenLengths(_)
TokenLengths(ds) ==
  IF ds = <<>> THEN 0 ELSE TokenLength(Head(ds).value) + TokenLengths(Tail(ds))

\* C12: dataUriSize is the byte length of the concatenation of the first
\* data:image/... token of each declaration value; a value that contains
\* data:image and no token contributes nothing, and a list without a token
\* gives 0.
C12_DataUriSizeIsTokenBytes ==
  runs > 0 => declarationAnalysis.dataUriSize = TokenLengths(declarations)

====
